---- MODULE Spec2Model ----
(***************************************************************************)
(* Model of src/main.py: the interactive Handshaking Lemma visualizer.     *)
(* State: the networkx graph self.G (node insertion order + adjacency),    *)
(* the id allocator self.next_node_id, the sqlite table "edges", the       *)
(* draw_step callbacks scheduled with root.after, the edge listbox and     *)
(* what the last handler showed (log line, message box, first frame).     *)
(***************************************************************************)
EXTENDS Integers, Sequences, FiniteSets, Bags, TLC

\* ---------------------------------------------------------------- bounds
\* Ids the user types in the From/To fields: (0 - NegIds) .. MaxId.
NegIds == 1
MaxId == 1
\* add_node is offered while next_node_id <= MaxNodeId.
MaxNodeId == 2
\* A new animation is offered while edges + scheduled animations < MaxEdges.
MaxEdges == 2
\* At most MaxPending animations are scheduled at the same time.
MaxPending == 2
\* animate_edge(self, u, v, duration=700, steps=20, on_complete=None): the
\* number of frames of one animation. Both callers leave it at its default;
\* the model runs every animation with this many frames.
steps == 3

Ids == (0 - NegIds)..MaxId

VARIABLES
    G,             \* self.G
    next_node_id,  \* self.next_node_id
    db,            \* rows of the table "edges" in graph_data.db
    pending,       \* bag of scheduled draw_step closures [u, v, i]
    edge_list,     \* items of the listbox self.edge_list
    last           \* what the last handler showed: [kind, arg]

vars == <<G, next_node_id, db, pending, edge_list, last>>

\* ------------------------------------------------------------- helpers
Max2(a, b) == IF a >= b THEN a ELSE b

SeqToSet(s) == {s[i] : i \in 1..Len(s)}

RECURSIVE SetMax(_)
SetMax(S) ==
    LET x == CHOOSE y \in S : TRUE
    IN  IF S = {x} THEN x ELSE Max2(x, SetMax(S \ {x}))

RECURSIVE SumSeq(_)
SumSeq(s) == IF s = <<>> THEN 0 ELSE Head(s) + SumSeq(Tail(s))

\* ------------------------------------------------- networkx.Graph model
\* nx.Graph(): G.nodes is an insertion-ordered dict, G.adj maps every node
\* to the dict of its neighbours.
EmptyGraph == [nodes |-> <<>>, adj |-> <<>>]

NodeSet(g) == SeqToSet(g.nodes)

Adj(g, n) == IF n \in DOMAIN g.adj THEN g.adj[n] ELSE {}

\* G.add_node(n): no effect when n is already a node.
GraphAddNode(g, n) ==
    IF n \in NodeSet(g) THEN g
    ELSE [nodes |-> Append(g.nodes, n),
          adj   |-> [m \in NodeSet(g) \cup {n} |-> Adj(g, m)]]

\* mutant: the reverse adjacency entry is not written
GraphAddEdgeOneWay(g, u, v) ==
    LET g2 == GraphAddNode(GraphAddNode(g, u), v)
    IN  [g2 EXCEPT !.adj = [m \in DOMAIN g2.adj |->
            IF m = u THEN g2.adj[m] \cup {v} ELSE g2.adj[m]]]

\* G.add_edge(u, v): creates u, then v, when absent; adj[u][v] and adj[v][u].
GraphAddEdge(g, u, v) ==
    LET g2 == GraphAddNode(GraphAddNode(g, u), v)
    IN  [g2 EXCEPT !.adj = [m \in DOMAIN g2.adj |->
            IF m = u THEN g2.adj[m] \cup {v}
            ELSE IF m = v THEN g2.adj[m] \cup {u}
            ELSE g2.adj[m]]]

\* mutant: an endpoint left without neighbour is removed with the edge
GraphRemoveEdgeDropsIsolated(g, u, v) ==
    LET adj2 == [m \in DOMAIN g.adj |->
                    IF m = u THEN g.adj[m] \ {v}
                    ELSE IF m = v THEN g.adj[m] \ {u}
                    ELSE g.adj[m]]
        gone == {m \in {u, v} \cap DOMAIN g.adj : adj2[m] = {}}
        RECURSIVE Keep(_)
        Keep(i) == IF i > Len(g.nodes) THEN <<>>
                   ELSE (IF g.nodes[i] \in gone THEN <<>> ELSE <<g.nodes[i]>>) \o Keep(i + 1)
    IN  [nodes |-> Keep(1), adj |-> [m \in DOMAIN g.adj \ gone |-> adj2[m]]]

\* G.remove_edge(u, v): del adj[u][v]; del adj[v][u]; the nodes stay.
GraphRemoveEdge(g, u, v) ==
    [g EXCEPT !.adj = [m \in DOMAIN g.adj |->
        IF m = u THEN g.adj[m] \ {v}
        ELSE IF m = v THEN g.adj[m] \ {u}
        ELSE g.adj[m]]]

\* G.has_edge(u, v): v in adj[u], False when u is no node.
HasEdge(g, u, v) == v \in Adj(g, u)

\* G.degree(n): len(adj[n]), a self-loop counting twice.
Degree(g, n) == Cardinality(Adj(g, n)) + (IF n \in Adj(g, n) THEN 1 ELSE 0)

\* [deg for _, deg in G.degree()]: one entry per node, in G.nodes order.
DegreeList(g) == [i \in 1..Len(g.nodes) |-> Degree(g, g.nodes[i])]

\* G.number_of_edges() == G.size(): sum of the degrees // 2.
NumberOfEdges(g) == SumSeq(DegreeList(g)) \div 2

\* Position of node n in G.nodes (insertion order).
IndexOf(g, n) == CHOOSE i \in 1..Len(g.nodes) : g.nodes[i] = n

\* G.edges(): for n in G.nodes order, every neighbour not yet visited as n,
\* reported as the tuple (n, neighbour).
EdgeTuples(g) ==
    UNION {{<<g.nodes[i], m>> : m \in {k \in Adj(g, g.nodes[i]) :
                \A j \in 1..(i - 1) : g.nodes[j] # k}} : i \in 1..Len(g.nodes)}

\* The undirected edge set of g.
EdgeSet(g) == {{t[1], t[2]} : t \in EdgeTuples(g)}

\* Python tuple order on pairs of integers.
TupleLess(a, b) == a[1] < b[1] \/ (a[1] = b[1] /\ a[2] < b[2])

\* sorted(S) for a set S of pairs.
RECURSIVE SortedTuples(_)
SortedTuples(S) ==
    IF S = {} THEN <<>>
    ELSE LET lo == CHOOSE a \in S : \A b \in S \ {a} : TupleLess(a, b)
         IN  <<lo>> \o SortedTuples(S \ {lo})

\* sorted(list(G.nodes()))
RECURSIVE SortedInts(_)
SortedInts(S) ==
    IF S = {} THEN <<>>
    ELSE LET lo == CHOOSE a \in S : \A b \in S : a <= b
         IN  <<lo>> \o SortedInts(S \ {lo})

\* ------------------------------------------- listbox text: format, parse
\* Strings are sequences of one-character strings.
DigitChars == <<"0", "1", "2", "3", "4", "5", "6", "7", "8", "9">>

RECURSIVE NatToStr(_)
NatToStr(n) ==
    IF n < 10 THEN <<DigitChars[n + 1]>>
    ELSE NatToStr(n \div 10) \o <<DigitChars[(n % 10) + 1]>>

\* str(n) of a Python int
IntToStr(n) == IF n < 0 THEN <<"-">> \o NatToStr(0 - n) ELSE NatToStr(n)

\* f"{u} - {v}"
FormatEdge(u, v) == IntToStr(u) \o <<" ", "-", " ">> \o IntToStr(v)

\* item.split("-"): the pieces between the "-" characters
RECURSIVE SplitDash(_, _)
SplitDash(s, cur) ==
    IF s = <<>> THEN <<cur>>
    ELSE IF Head(s) = "-" THEN <<cur>> \o SplitDash(Tail(s), <<>>)
    ELSE SplitDash(Tail(s), Append(cur, Head(s)))

\* s.strip() for the blank character
RECURSIVE StripLeft(_)
StripLeft(s) == IF s # <<>> /\ Head(s) = " " THEN StripLeft(Tail(s)) ELSE s

RECURSIVE StripRight(_)
StripRight(s) ==
    IF s # <<>> /\ s[Len(s)] = " " THEN StripRight(SubSeq(s, 1, Len(s) - 1)) ELSE s

Strip(s) == StripRight(StripLeft(s))

IsDigits(s) == s # <<>> /\ \A i \in 1..Len(s) : \E d \in 1..10 : DigitChars[d] = s[i]

DigitVal(c) == (CHOOSE d \in 1..10 : DigitChars[d] = c) - 1

RECURSIVE DigitsToNat(_)
DigitsToNat(s) ==
    IF s = <<>> THEN 0
    ELSE 10 * DigitsToNat(SubSeq(s, 1, Len(s) - 1)) + DigitVal(s[Len(s)])

\* int(parts[0].strip()), int(parts[1].strip()) of item.split("-"); the pieces
\* hold no sign, so int() succeeds exactly on a non-empty run of digits.
\* ok = FALSE is the "except Exception" branch (IndexError or ValueError).
ParseEdgeItem(item) ==
    LET parts == SplitDash(item, <<>>)
    IN  IF Len(parts) >= 2 /\ IsDigits(Strip(parts[1])) /\ IsDigits(Strip(parts[2]))
        THEN [ok |-> TRUE, u |-> DigitsToNat(Strip(parts[1])),
                           v |-> DigitsToNat(Strip(parts[2]))]
        ELSE [ok |-> FALSE, u |-> 0, v |-> 0]

\* for u, v in sorted(self.G.edges()): self.edge_list.insert(tk.END, f"{u} - {v}")
EdgeListOf(g) ==
    LET st == SortedTuples(EdgeTuples(g))
    IN  [i \in 1..Len(st) |-> FormatEdge(st[i][1], st[i][2])]

\* ------------------------------------------- refresh_graph: node colours
\* nodes = sorted(list(self.G.nodes())); deg_vals = [degrees.get(n, 0) for n in nodes]
DegVals(g) ==
    LET nodes == SortedInts(NodeSet(g))
    IN  [i \in 1..Len(nodes) |-> Degree(g, nodes[i])]

\* mutant: the divisor is the maximum degree itself, 0 without any edge
MaxDegNoGuard(g) ==
    IF DegVals(g) # <<>> THEN SetMax(SeqToSet(DegVals(g))) ELSE 0

\* maxdeg of the 2D view: max(deg_vals) if max(deg_vals) > 0 else 1, and 1
\* for the empty list.
MaxDeg(g) ==
    IF DegVals(g) # <<>>
    THEN (IF SetMax(SeqToSet(DegVals(g))) > 0 THEN SetMax(SeqToSet(DegVals(g))) ELSE 1)
    ELSE 1

\* maxdeg of the 3D view: max(deg_vals) if deg_vals and max(deg_vals) > 0 else 1
MaxDeg3D(g) ==
    IF DegVals(g) # <<>> /\ SetMax(SeqToSet(DegVals(g))) > 0
    THEN SetMax(SeqToSet(DegVals(g)))
    ELSE 1

\* node_colors = [cmap(d / maxdeg) for d in deg_vals]: the intensity of each
\* node as the pair (numerator, divisor).
NodeColors(g) == [i \in 1..Len(DegVals(g)) |-> <<DegVals(g)[i], MaxDeg(g)>>]

\* --------------------------------------------------- sqlite table "edges"
\* db is the sequence of (source, target) rows in rowid order.
\* save_edge(u, v): INSERT INTO edges (source, target) VALUES (u, v)
SaveEdge(rows, u, v) == Append(rows, <<u, v>>)

\* mutant: only the row stored as (u, v) is deleted
DeleteEdgeExact(rows, u, v) ==
    LET keep == {i \in 1..Len(rows) : rows[i] # <<u, v>>}
        RECURSIVE Pick(_)
        Pick(i) == IF i > Len(rows) THEN <<>>
                   ELSE (IF i \in keep THEN <<rows[i]>> ELSE <<>>) \o Pick(i + 1)
    IN  Pick(1)

\* delete_edge(u, v): DELETE ... WHERE (source=u AND target=v) OR (source=v AND target=u)
RECURSIVE DeleteEdge(_, _, _)
DeleteEdge(rows, u, v) ==
    IF rows = <<>> THEN <<>>
    ELSE IF Head(rows) = <<u, v>> \/ Head(rows) = <<v, u>>
         THEN DeleteEdge(Tail(rows), u, v)
         ELSE <<Head(rows)>> \o DeleteEdge(Tail(rows), u, v)

\* mutant: the last row is not fetched
LoadEdgesAllButLast(rows) == SubSeq(rows, 1, Len(rows) - 1)

\* load_edges(): SELECT source, target FROM edges
LoadEdges(rows) == rows

\* The undirected pairs recorded in the store.
StorePairs(rows) == {{rows[i][1], rows[i][2]} : i \in 1..Len(rows)}

\* load_from_db: G.add_edge(uu, vv) for every row, on the fresh graph;
\* next_node_id = max(nodes) + 1, or 1 when there is no row.
RECURSIVE LoadGraph(_, _)
LoadGraph(g, rows) ==
    IF rows = <<>> THEN g
    ELSE LoadGraph(GraphAddEdge(g, Head(rows)[1], Head(rows)[2]), Tail(rows))

\* mutant: the allocator is the number of loaded nodes plus one
LoadNextIdCount(rows) ==
    Cardinality(UNION {{rows[i][1], rows[i][2]} : i \in 1..Len(rows)}) + 1

LoadNextId(rows) ==
    LET nodes == UNION {{rows[i][1], rows[i][2]} : i \in 1..Len(rows)}
    IN  IF nodes # {} THEN SetMax(nodes) + 1 ELSE 1

\* ------------------------------------------------------------ handlers
Shown(kind, arg) == [kind |-> kind, arg |-> arg]

\* GraphApp.__init__ on the store content rows: fresh graph, load_from_db,
\* refresh_graph. No timer of an earlier process survives.
Startup(rows) ==
    /\ G = LoadGraph(EmptyGraph, LoadEdges(rows))
    /\ next_node_id = LoadNextId(LoadEdges(rows))
    /\ db = rows
    /\ pending = EmptyBag
    /\ edge_list = EdgeListOf(LoadGraph(EmptyGraph, LoadEdges(rows)))
    /\ last = Shown("loaded", <<NumberOfEdges(LoadGraph(EmptyGraph, LoadEdges(rows)))>>)

\* First run: init_db creates the empty table.
Init == Startup(<<>>)

\* The window is closed and the program started again on the same database.
Restart ==
    /\ G' = LoadGraph(EmptyGraph, LoadEdges(db))
    /\ next_node_id' = LoadNextId(LoadEdges(db))
    /\ pending' = EmptyBag
    /\ edge_list' = EdgeListOf(G')
    /\ last' = Shown("loaded", <<NumberOfEdges(G')>>)
    /\ UNCHANGED db

\* add_node
AddNode ==
    /\ LET node_id == next_node_id
       IN  /\ G' = GraphAddNode(G, node_id)
           /\ next_node_id' = Max2(next_node_id, node_id + 1)
           /\ last' = Shown("added_node", <<node_id>>)
    /\ edge_list' = EdgeListOf(G')
    /\ UNCHANGED <<db, pending>>

\* mutant: the has_edge test of _finalize_add_edge is dropped
FinalizeAddEdgeNoTest(u, v) ==
    /\ G' = GraphAddEdge(G, u, v)
    /\ db' = SaveEdge(db, u, v)
    /\ last' = Shown("added_edge", <<u, v>>)
    /\ edge_list' = EdgeListOf(G')
    /\ UNCHANGED next_node_id

\* _finalize_add_edge(u, v)
FinalizeAddEdge(u, v) ==
    /\ IF ~HasEdge(G, u, v)
       THEN /\ G' = GraphAddEdge(G, u, v)
            /\ db' = SaveEdge(db, u, v)
            /\ last' = Shown("added_edge", <<u, v>>)
       ELSE UNCHANGED <<G, db, last>>
    /\ edge_list' = EdgeListOf(G')
    /\ UNCHANGED next_node_id

\* mutant: the last frame is skipped, on_complete runs one frame early
DrawStepRunEarly(u, v, i, rest) ==
    IF i + 2 < Max2(1, steps)
    THEN /\ pending' = rest (+) SetToBag({[u |-> u, v |-> v, i |-> i + 1]})
         /\ UNCHANGED <<G, next_node_id, db, edge_list, last>>
    ELSE /\ pending' = rest
         /\ FinalizeAddEdge(u, v)

\* mutant: the last frame ends the animation without calling on_complete
DrawStepRunNoComplete(u, v, i, rest) ==
    IF i + 1 < Max2(1, steps)
    THEN /\ pending' = rest (+) SetToBag({[u |-> u, v |-> v, i |-> i + 1]})
         /\ UNCHANGED <<G, next_node_id, db, edge_list, last>>
    ELSE /\ pending' = rest
         /\ UNCHANGED <<G, next_node_id, db, edge_list, last>>

\* total = max(1, int(steps))
total == Max2(1, steps)

\* One run of the closure draw_step of animate_edge(u, v) whose counter is i,
\* rest being the other scheduled closures: draw a frame, step['i'] += 1,
\* then root.after(interval, draw_step) or on_complete().
DrawStepRun(u, v, i, rest) ==
    IF i + 1 < total
    THEN /\ pending' = rest (+) SetToBag({[u |-> u, v |-> v, i |-> i + 1]})
         /\ UNCHANGED <<G, next_node_id, db, edge_list, last>>
    ELSE /\ pending' = rest
         /\ FinalizeAddEdge(u, v)

\* A timer fires: the scheduled closure a runs.
DrawStep(a) ==
    /\ BagIn(a, pending)
    /\ DrawStepRun(a.u, a.v, a.i, pending (-) SetToBag({a}))

\* mutant: the u == v test of add_edge_from_select is dropped
AddEdgeFromSelectNoSelfTest(u, v) ==
    IF HasEdge(G, u, v)
    THEN /\ last' = Shown("info_exists", <<u, v>>)
         /\ UNCHANGED <<G, next_node_id, db, pending, edge_list>>
    ELSE /\ pending' = pending (+) SetToBag({[u |-> u, v |-> v, i |-> 1]})
         /\ last' = Shown("animating", <<u, v>>)
         /\ UNCHANGED <<G, next_node_id, db, edge_list>>

\* add_edge_from_select with From = u and To = v (both parse as integers).
AddEdgeFromSelect(u, v) ==
    IF u = v
    THEN /\ last' = Shown("error_self_loop", <<>>)
         /\ UNCHANGED <<G, next_node_id, db, pending, edge_list>>
    ELSE IF HasEdge(G, u, v)
    THEN /\ last' = Shown("info_exists", <<u, v>>)
         /\ UNCHANGED <<G, next_node_id, db, pending, edge_list>>
    ELSE \* animate_edge: the first draw_step runs inside the handler
         /\ IF 1 < total
            THEN /\ pending' = pending (+) SetToBag({[u |-> u, v |-> v, i |-> 1]})
                 /\ last' = Shown("animating", <<u, v>>)
                 /\ UNCHANGED <<G, next_node_id, db, edge_list>>
            ELSE /\ pending' = pending
                 /\ FinalizeAddEdge(u, v)

\* add_edge_from_select when a field does not parse as an integer.
AddEdgeBadInput ==
    /\ last' = Shown("error_select_two", <<>>)
    /\ UNCHANGED <<G, next_node_id, db, pending, edge_list>>

\* remove_selected_edge with the listbox item idx selected.
RemoveSelectedEdge(idx) ==
    /\ idx \in 1..Len(edge_list)
    /\ LET p == ParseEdgeItem(edge_list[idx])
       IN  IF ~p.ok
           THEN /\ last' = Shown("error_parse", <<>>)
                /\ UNCHANGED <<G, next_node_id, db, pending, edge_list>>
           ELSE /\ G' = IF HasEdge(G, p.u, p.v) THEN GraphRemoveEdge(G, p.u, p.v) ELSE G
                /\ db' = DeleteEdge(db, p.u, p.v)
                /\ last' = Shown("removed_edge", <<p.u, p.v>>)
                /\ edge_list' = EdgeListOf(G')
                /\ UNCHANGED <<next_node_id, pending>>

\* remove_selected_edge with nothing selected.
RemoveNoSelection ==
    /\ last' = Shown("error_no_selection", <<>>)
    /\ UNCHANGED <<G, next_node_id, db, pending, edge_list>>

\* verify_lemma
VerifyLemma ==
    /\ LET degrees == DegreeList(G)
           degree_sum == SumSeq(degrees)
           edge_twice == 2 * NumberOfEdges(G)
       IN  last' = IF degree_sum = edge_twice
                   THEN Shown("verified", degrees)
                   ELSE Shown("mismatch", degrees)
    /\ edge_list' = EdgeListOf(G)
    /\ UNCHANGED <<G, next_node_id, db, pending>>

\* mutant: the parity test is inverted
OddDegreeNodesInverted(g) == {n \in NodeSet(g) : Degree(g, n) % 2 # 1}

\* [n for n, d in self.G.degree() if d % 2 != 0]
OddDegreeNodes(g) == {n \in NodeSet(g) : Degree(g, n) % 2 # 0}

\* The nodes reachable from the nodes of S along edges of g.
RECURSIVE ReachFrom(_, _)
ReachFrom(g, S) ==
    LET T == S \cup UNION {Adj(g, n) : n \in S}
    IN  IF T = S THEN S ELSE ReachFrom(g, T)

IsConnected(g) ==
    NodeSet(g) = {} \/ ReachFrom(g, {g.nodes[1]}) = NodeSet(g)

\* mutant: a circuit or path is reported only for a connected graph
ClassifyEulerianConnected(g) ==
    LET k == Cardinality(OddDegreeNodes(g))
    IN  IF k = 0 /\ IsConnected(g) THEN [kind |-> "euler_circuit", arg |-> <<k>>]
        ELSE IF k = 2 /\ IsConnected(g) THEN [kind |-> "euler_path", arg |-> <<k>>]
        ELSE [kind |-> "euler_none", arg |-> <<k>>]

\* The branch euler_path_check takes on g, with the odd-degree count.
ClassifyEulerian(g) ==
    LET k == Cardinality(OddDegreeNodes(g))
    IN  IF k = 0 THEN Shown("euler_circuit", <<k>>)
        ELSE IF k = 2 THEN Shown("euler_path", <<k>>)
        ELSE Shown("euler_none", <<k>>)

\* euler_path_check
EulerPathCheck ==
    /\ last' = ClassifyEulerian(G)
    /\ edge_list' = EdgeListOf(G)
    /\ UNCHANGED <<G, next_node_id, db, pending>>

\* mutant: the allocator is not reset
ResetGraphKeepsAllocator ==
    /\ db' = <<>>
    /\ G' = EmptyGraph
    /\ last' = Shown("reset", <<>>)
    /\ edge_list' = EdgeListOf(G')
    /\ UNCHANGED <<next_node_id, pending>>

\* reset_graph: DELETE FROM edges, G.clear(), next_node_id = 1. The timers
\* scheduled with root.after are not cancelled.
ResetGraph ==
    /\ db' = <<>>
    /\ G' = EmptyGraph
    /\ next_node_id' = 1
    /\ last' = Shown("reset", <<>>)
    /\ edge_list' = EdgeListOf(G')
    /\ UNCHANGED pending

\* The bounds of the exploration: room for one more node, one more animation.
NodeRoom == next_node_id <= MaxNodeId

AnimationRoom ==
    /\ BagCardinality(pending) < MaxPending
    /\ Cardinality(EdgeSet(G)) + BagCardinality(pending) < MaxEdges

\* The command passes both tests of add_edge_from_select.
Accepted(u, v) == u # v /\ ~HasEdge(G, u, v)

Next ==
    \/ NodeRoom /\ AddNode
    \/ \E u \in Ids, v \in Ids :
          (Accepted(u, v) => AnimationRoom) /\ AddEdgeFromSelect(u, v)
    \/ AddEdgeBadInput
    \/ \E a \in BagToSet(pending) : DrawStep(a)
    \/ \E idx \in 1..Len(edge_list) : RemoveSelectedEdge(idx)
    \/ RemoveNoSelection
    \/ VerifyLemma
    \/ EulerPathCheck
    \/ ResetGraph
    \/ Restart

Spec == Init /\ [][Next]_vars

\* ------------------------------------------- store writes that can fail
\* The last frame of an animation when save_edge raises: G.add_edge has
\* run, the exception leaves _finalize_add_edge before log and refresh_graph.
DrawStepSaveFails(a) ==
    /\ BagIn(a, pending)
    /\ ~(a.i + 1 < total)
    /\ ~HasEdge(G, a.u, a.v)
    /\ pending' = pending (-) SetToBag({a})
    /\ G' = GraphAddEdge(G, a.u, a.v)
    /\ UNCHANGED <<next_node_id, db, edge_list, last>>

\* remove_selected_edge when delete_edge raises: G.remove_edge has run, the
\* exception leaves the handler before log and refresh_graph.
RemoveSelectedEdgeDeleteFails(idx) ==
    /\ idx \in 1..Len(edge_list)
    /\ LET p == ParseEdgeItem(edge_list[idx])
       IN  /\ p.ok
           /\ G' = IF HasEdge(G, p.u, p.v) THEN GraphRemoveEdge(G, p.u, p.v) ELSE G
    /\ UNCHANGED <<next_node_id, db, pending, edge_list, last>>

\* With failing writes the table can outgrow the graph: failures are
\* explored while it holds fewer than MaxRows rows.
MaxRows == 2

RowRoom == Len(db) < MaxRows

NextFail ==
    \/ Next
    \/ \E a \in BagToSet(pending) : RowRoom /\ DrawStepSaveFails(a)
    \/ \E idx \in 1..Len(edge_list) : RowRoom /\ RemoveSelectedEdgeDeleteFails(idx)

SpecFail == Init /\ [][NextFail]_vars

\* ------------------------------------- a session in which every timer fires
\* The closures root.after can hold: animate_edge(u, v) with i frames drawn,
\* for a pair that passed the u == v test.
Closures == {a \in [u : Ids, v : Ids, i : 1..(total - 1)] : a.u # a.v}

\* The window stays open (a restart destroys the scheduled timers), and the
\* user issues the commands that change the graph, the store or the timers;
\* the commands that only show a result or an error dialog are left out.
NextLive ==
    \/ NodeRoom /\ AddNode
    \/ \E u \in Ids, v \in Ids :
          (Accepted(u, v) => AnimationRoom) /\ AddEdgeFromSelect(u, v)
    \/ \E a \in BagToSet(pending) : DrawStep(a)
    \/ \E idx \in 1..Len(edge_list) : RemoveSelectedEdge(idx)
    \/ ResetGraph

\* The Tk main loop runs every callback scheduled with root.after once its
\* delay has passed.
SpecLive ==
    /\ Init
    /\ [][NextLive]_vars
    /\ \A a \in Closures : WF_vars(DrawStep(a))

\* ------------------------------------------------------------- claims
\* C1: in every reachable state the sum of the degrees of all nodes equals
\* twice the number of edges (counted as Graph.number_of_edges does and as
\* the number of undirected pairs), and verify_lemma never reports Mismatch.
C1_HandshakingAlwaysHolds ==
    /\ SumSeq(DegreeList(G)) = 2 * NumberOfEdges(G)
    /\ SumSeq(DegreeList(G)) = 2 * Cardinality(EdgeSet(G))
    /\ last.kind # "mismatch"

\* C1 witness: verify_lemma has just run on a graph with two edges.
C1_Witness == last.kind = "verified" /\ Cardinality(EdgeSet(G)) = 2

\* C2: when no store write fails, the undirected pairs recorded in the store
\* are the edges of the in-memory graph after every handler, also while
\* animations are scheduled.
C2_StoreEqualsGraph == StorePairs(db) = EdgeSet(G)

\* C2 witness: an edge was removed while a second animation of the same
\* pair was still scheduled.
C2_Witness ==
    /\ last.kind = "removed_edge"
    /\ \E a \in BagToSet(pending) : {a.u, a.v} = {last.arg[1], last.arg[2]}

\* C3: when a store write fails after the graph was changed, the change is
\* rolled back or an "unsaved" warning is shown: the graph never differs
\* from the store without that warning.
C3_NoSilentDivergence ==
    StorePairs(db) = EdgeSet(G) \/ last.kind = "unsaved_warning"

\* C4: add_node allocates an id that is no node yet; afterwards that id is
\* an isolated node and the node count has grown by one.
C4_AddNodeAllocatesFreshId ==
    [][AddNode =>
        /\ next_node_id \notin NodeSet(G)
        /\ next_node_id \in NodeSet(G')
        /\ Degree(G', next_node_id) = 0
        /\ Len(G'.nodes) = Len(G.nodes) + 1]_vars

\* C5: an add-edge command for (v, u) right after an accepted add-edge
\* command for (u, v) is rejected as a duplicate: reported as existing, no
\* animation started, graph and store unchanged.
C5_ReversedRepeatRejected ==
    [][\A u \in Ids, v \in Ids :
        (/\ u # v
         /\ last \in {Shown("animating", <<u, v>>), Shown("added_edge", <<u, v>>)}
         /\ AddEdgeFromSelect(v, u))
        => (/\ last' = Shown("info_exists", <<v, u>>)
            /\ UNCHANGED <<G, db, pending>>)]_vars

\* C6: for every interleaving of add-edge commands and timer callbacks an
\* edge is committed at most once: G.edges() reports each unordered pair
\* once and the store holds at most one row per unordered pair.
C6_CommittedAtMostOnce ==
    /\ Cardinality(EdgeTuples(G)) = Cardinality(EdgeSet(G))
    /\ \A i \in 1..Len(db), j \in 1..Len(db) :
          i # j => {db[i][1], db[i][2]} # {db[j][1], db[j][2]}

\* C6 witness: of two overlapping animations of one pair the first has
\* committed the edge and the second is still scheduled.
C6_Witness ==
    /\ last.kind = "added_edge"
    /\ \E a \in BagToSet(pending) :
          {a.u, a.v} = {last.arg[1], last.arg[2]} /\ HasEdge(G, a.u, a.v)

\* Neither the graph nor the store holds a self-loop.
NoSelfLoop ==
    /\ \A n \in NodeSet(G) : n \notin Adj(G, n)
    /\ \A i \in 1..Len(db) : db[i][1] # db[i][2]

\* C7: an add-edge command with source = target is rejected: no animation,
\* node set, edge set, allocator and store unchanged; no step leads to a
\* state that holds a self-loop (the initial graph and store are empty).
C7_SelfLoopRejected ==
    [][/\ NoSelfLoop'
       /\ \A u \in Ids : AddEdgeFromSelect(u, u) =>
            (/\ UNCHANGED <<G, next_node_id, db, pending>>
             /\ last'.kind = "error_self_loop")]_vars

\* C7 witness: a self-loop command was just rejected on a graph with an edge.
C7_Witness == last.kind = "error_self_loop" /\ EdgeSet(G) # {}

\* C8: a restart (fresh graph + load_from_db) yields the edge set the model
\* had before, and exactly the endpoints of those edges as nodes.
C8_RestartRoundTrip ==
    [][(Restart /\ pending = EmptyBag) =>
        /\ EdgeSet(G') = EdgeSet(G)
        /\ NodeSet(G') = UNION EdgeSet(G)]_vars

\* C8 witness: the program has just been restarted on a store with two rows.
C8_Witness == last.kind = "loaded" /\ Len(db) = 2 /\ Cardinality(EdgeSet(G)) = 2

\* C9: right after reset_graph the graph has no node and no edge, the store
\* returns no row and the allocator is 1.
C9_ResetClearsEverything ==
    last.kind = "reset" =>
        /\ G.nodes = <<>>
        /\ EdgeSet(G) = {}
        /\ LoadEdges(db) = <<>>
        /\ next_node_id = 1

\* C9 witness: reset_graph ran while an animation was scheduled.
C9_Witness == last.kind = "reset" /\ pending # EmptyBag

\* ------------------------------------- a session on an existing database
\* The program is started on a table left by an earlier session: at most
\* MaxStoredRows rows over the ids 1..MaxStoredId, written by save_edge
\* (no self-loop, one row per unordered pair).
MaxStoredId == 4
MaxStoredRows == 3

StoredRow == {r \in (1..MaxStoredId) \X (1..MaxStoredId) : r[1] # r[2]}

RECURSIVE RowSeqs(_)
RowSeqs(n) ==
    IF n = 0 THEN {<<>>}
    ELSE LET shorter == RowSeqs(n - 1)
         IN  shorter \cup
             {Append(rs, r) : rs \in {x \in shorter : Len(x) = n - 1},
                              r \in StoredRow}

StoredRows ==
    {rs \in RowSeqs(MaxStoredRows) :
        \A i \in 1..Len(rs), j \in 1..Len(rs) :
            i # j => {rs[i][1], rs[i][2]} # {rs[j][1], rs[j][2]}}

InitStored == \E rows \in StoredRows : Startup(rows)

StoredNodeRoom == Len(G.nodes) < MaxStoredId

NextStored ==
    \/ StoredNodeRoom /\ AddNode
    \/ \E idx \in 1..Len(edge_list) : RemoveSelectedEdge(idx)
    \/ VerifyLemma
    \/ EulerPathCheck

SpecStored == InitStored /\ [][NextStored]_vars

\* The number of nodes lying on an odd number of edges of g.
OddIncidence(g) ==
    Cardinality({n \in NodeSet(g) :
        Cardinality({e \in EdgeSet(g) : n \in e}) % 2 = 1})

EulerKinds == {"euler_circuit", "euler_path", "euler_none"}

Triangle123 == {{1, 2}, {2, 3}, {1, 3}}

\* C10: the Euler classification depends on the number k of odd-degree nodes
\* only: Circuit when k = 0, Path when k = 2, otherwise None with k reported;
\* connectivity is not consulted, so the empty graph, a triangle and a
\* disconnected graph with even degrees are Circuit and the path 1-2-3 is Path.
C10_EulerByOddCountOnly ==
    last.kind \in EulerKinds =>
        LET k == OddIncidence(G)
        IN  /\ k = 0 => last = Shown("euler_circuit", <<0>>)
            /\ k = 2 => last = Shown("euler_path", <<2>>)
            /\ k \notin {0, 2} => last = Shown("euler_none", <<k>>)
            /\ EdgeSet(G) = {} => last.kind = "euler_circuit"
            /\ EdgeSet(G) = Triangle123 => last.kind = "euler_circuit"
            /\ EdgeSet(G) = {{1, 2}, {2, 3}} => last.kind = "euler_path"

\* C10 witness: euler_path_check reported a circuit on a disconnected graph,
\* the triangle 1-2-3 plus an isolated fourth node.
C10_Witness ==
    /\ last.kind = "euler_circuit"
    /\ EdgeSet(G) = Triangle123
    /\ Len(G.nodes) = 4
    /\ ~IsConnected(G)

\* g is a star with 3 leaves: 4 nodes, a centre joined to each of the other
\* three nodes, and no other edge.
IsStar3(g) ==
    /\ Cardinality(NodeSet(g)) = 4
    /\ \E c \in NodeSet(g) : EdgeSet(g) = {{c, l} : l \in NodeSet(g) \ {c}}

\* C11 as stated: on a star with 3 leaves the Euler classification is None
\* and the reported odd-degree count is 3.
C11_StarOddCountThree ==
    (last.kind \in EulerKinds /\ IsStar3(G)) => last = Shown("euler_none", <<3>>)

\* C11 amended: on a star with 3 leaves the Euler classification is None and
\* the reported odd-degree count is 4 (the centre of degree 3 and the three
\* leaves of degree 1).
C11_StarOddCountFour ==
    (last.kind \in EulerKinds /\ IsStar3(G)) =>
        /\ last = Shown("euler_none", <<4>>)
        /\ OddIncidence(G) = 4

\* C11 witness: euler_path_check has just run on a star with 3 leaves.
C11_Witness == last.kind = "euler_none" /\ IsStar3(G)

\* C12: a remove-edge command for a pair that is no edge of the graph
\* reports EdgeNotFound, not a removal, and leaves the node set, the edge
\* set and the store unchanged.
C12_RemoveAbsentEdgeReported ==
    [][\A idx \in 1..Len(edge_list) :
        (/\ RemoveSelectedEdge(idx)
         /\ ParseEdgeItem(edge_list[idx]).ok
         /\ ~HasEdge(G, ParseEdgeItem(edge_list[idx]).u, ParseEdgeItem(edge_list[idx]).v))
        => (/\ last'.kind = "edge_not_found"
            /\ UNCHANGED <<G, db>>)]_vars

\* The degrees of the nodes of g in ascending node-id order.
DegreesById(g) ==
    LET ids == SortedInts(NodeSet(g))
    IN  [i \in 1..Len(ids) |-> Degree(g, ids[i])]

\* C13: the degree sequence shown by the handshaking verification lists one
\* degree per node in ascending node-id order.
C13_DegreesInIdOrder ==
    last.kind \in {"verified", "mismatch"} => last.arg = DegreesById(G)

\* The edges of g as pairs (u, v) with u < v.
NormalizedTuples(g) ==
    {<<n, m>> \in NodeSet(g) \X NodeSet(g) : n < m /\ {n, m} \in EdgeSet(g)}

\* C14: the edge list shown after a refresh is sorted ascending by (u, v)
\* and every entry is normalized so that u < v, whatever the order in which
\* the endpoints were entered.
C14_EdgeListNormalized ==
    LET st == SortedTuples(NormalizedTuples(G))
    IN  edge_list = [i \in 1..Len(st) |-> FormatEdge(st[i][1], st[i][2])]

\* C15: a remove-edge command never changes the node set or the allocator:
\* both endpoints of the removed edge stay nodes, also with degree 0, and
\* the only change to the graph is the removal of that one edge.
C15_RemoveKeepsNodes ==
    [][\A idx \in 1..Len(edge_list) :
        RemoveSelectedEdge(idx) =>
            LET p == ParseEdgeItem(edge_list[idx])
            IN  /\ G'.nodes = G.nodes
                /\ next_node_id' = next_node_id
                /\ EdgeSet(G') = IF p.ok THEN EdgeSet(G) \ {{p.u, p.v}} ELSE EdgeSet(G)
                /\ p.ok => {p.u, p.v} \subseteq NodeSet(G')]_vars

\* C15 witness: an edge was just removed and both its endpoints are nodes of
\* degree 0.
C15_Witness ==
    /\ last.kind = "removed_edge"
    /\ {last.arg[1], last.arg[2]} \subseteq NodeSet(G)
    /\ Degree(G, last.arg[1]) = 0
    /\ Degree(G, last.arg[2]) = 0

\* The largest number of edges of g meeting one node, 0 for a graph without
\* nodes.
MaxIncidence(g) ==
    IF NodeSet(g) = {} THEN 0
    ELSE SetMax({Cardinality({e \in EdgeSet(g) : n \in e}) : n \in NodeSet(g)})

\* C16: the divisor of the colour normalization is max(maxDegree, 1), so at
\* least 1 also for the empty graph and for isolated nodes only; every node's
\* degree lies between 0 and the divisor (intensity in [0, 1]); when the
\* maximum degree is 0 every node has intensity 0.
C16_ColourDivisorPositive ==
    /\ MaxDeg(G) = Max2(MaxIncidence(G), 1)
    /\ MaxDeg3D(G) = MaxDeg(G)
    /\ MaxDeg(G) >= 1
    /\ Len(NodeColors(G)) = Len(G.nodes)
    /\ \A i \in 1..Len(NodeColors(G)) :
          /\ NodeColors(G)[i][2] = MaxDeg(G)
          /\ 0 <= NodeColors(G)[i][1]
          /\ NodeColors(G)[i][1] <= NodeColors(G)[i][2]
          /\ MaxIncidence(G) = 0 => NodeColors(G)[i][1] = 0

\* C16 witness: the graph was refreshed with isolated nodes only.
C16_Witness ==
    /\ last.kind = "added_node"
    /\ Len(G.nodes) >= 2
    /\ EdgeSet(G) = {}

\* C18: an accepted add-edge command commits only after all max(1, steps)
\* frames were drawn: every scheduled closure has drawn between 1 and
\* total - 1 frames; a callback that draws an earlier frame changes neither
\* the graph nor the store and reschedules itself with one more frame; the
\* only step that adds an edge or a row is the callback drawing frame number
\* total, it adds that command's pair alone, and the closure is not
\* scheduled again, so the commit runs at most once per command.
C18_CommitAfterAllFrames ==
    [][/\ \A a \in BagToSet(pending') : 1 <= a.i /\ a.i <= total - 1
       /\ \A a \in BagToSet(pending) :
             (DrawStep(a) /\ a.i < total - 1) =>
                 /\ UNCHANGED <<G, db>>
                 /\ pending' = (pending (-) SetToBag({a}))
                                  (+) SetToBag({[u |-> a.u, v |-> a.v, i |-> a.i + 1]})
       /\ (EdgeSet(G') \ EdgeSet(G) # {} \/ Len(db') > Len(db)) =>
             \E a \in BagToSet(pending) :
                 /\ a.i = total - 1
                 /\ pending' = pending (-) SetToBag({a})
                 /\ EdgeSet(G') = EdgeSet(G) \cup {{a.u, a.v}}
                 /\ db' = Append(db, <<a.u, a.v>>)]_vars

\* C18 witness: one command has committed while another one, with all
\* frames but the last drawn, has added nothing yet.
C18_Witness ==
    /\ last.kind = "added_edge"
    /\ \E a \in BagToSet(pending) :
          /\ a.i = total - 1
          /\ ~HasEdge(G, a.u, a.v)
          /\ {a.u, a.v} \notin StorePairs(db)

\* C19: when every scheduled timer fires and no store write fails, every
\* scheduled animation of (u, v) leads to a state in which (u, v) is an edge
\* of the graph and of the store; the callback drawing the last frame, which
\* is the commit step, leaves that closure no longer scheduled.
C19_AcceptedCommandCommits ==
    /\ \A e \in {{a.u, a.v} : a \in Closures} :
          (\E a \in BagToSet(pending) : {a.u, a.v} = e) ~>
              (e \in EdgeSet(G) /\ e \in StorePairs(db))
    /\ [][\A a \in BagToSet(pending) :
             (DrawStep(a) /\ a.i = total - 1) =>
                 pending' = pending (-) SetToBag({a})]_vars

\* C19 witness: a command has committed its edge to the graph and the store
\* and no animation is scheduled any more.
C19_Witness ==
    /\ last.kind = "added_edge"
    /\ pending = EmptyBag
    /\ HasEdge(G, last.arg[1], last.arg[2])
    /\ {last.arg[1], last.arg[2]} \in StorePairs(db)

\* C20: a reset is not undone by an animation started before it: as long as
\* no command was issued after reset_graph, a timer callback of a pending
\* animation leaves the graph and the store empty and the allocator greater
\* than every node id.
C20_ResetNotUndone ==
    [][(last.kind = "reset" /\ \E a \in BagToSet(pending) : DrawStep(a)) =>
          /\ NodeSet(G') = {}
          /\ EdgeSet(G') = {}
          /\ db' = <<>>
          /\ \A n \in NodeSet(G') : n < next_node_id']_vars

\* C21: every listed edge is removable: selecting the entry of an edge
\* (u, v) of the graph, negative ids included, and issuing remove parses
\* back to (u, v) and removes exactly that edge from the graph and from the
\* store.
C21_ListedEdgeRemovable ==
    [][\A idx \in 1..Len(edge_list) :
          (RemoveSelectedEdge(idx) /\ edge_list = EdgeListOf(G)) =>
              LET t == SortedTuples(EdgeTuples(G))[idx]
              IN  /\ ParseEdgeItem(edge_list[idx]) = [ok |-> TRUE, u |-> t[1], v |-> t[2]]
                  /\ EdgeSet(G') = EdgeSet(G) \ {{t[1], t[2]}}
                  /\ StorePairs(db') = StorePairs(db) \ {{t[1], t[2]}}]_vars

\* C22: right after a startup load the allocator is the largest loaded node
\* id plus one, or 1 when the store holds no row, and the first add_node
\* after it returns an id greater than every loaded node id.
C22_AllocatorAfterLoad ==
    [][/\ last'.kind = "loaded" =>
             /\ NodeSet(G') = UNION StorePairs(db')
             /\ next_node_id' = IF db' = <<>> THEN 1 ELSE SetMax(NodeSet(G')) + 1
             /\ \A n \in NodeSet(G') : n < next_node_id'
       /\ (last.kind = "loaded" /\ AddNode) =>
             /\ last' = Shown("added_node", <<next_node_id>>)
             /\ \A n \in NodeSet(G) : n < last'.arg[1]
             /\ NodeSet(G') = NodeSet(G) \cup {last'.arg[1]}]_vars

\* C22 witness: a node was added to a graph loaded from a store with rows;
\* its id is the largest stored id plus one.
C22_Witness ==
    /\ last.kind = "added_node"
    /\ db # <<>>
    /\ NodeSet(G) = (UNION StorePairs(db)) \cup {last.arg[1]}
    /\ last.arg[1] = SetMax(UNION StorePairs(db)) + 1

====
